---- MODULE Spec2Model ----
(***************************************************************************)
(* The submission backend of lcextensionbackend: POST /api/data validates  *)
(* the body, acknowledges, and runs a fire-and-forget pipeline             *)
(*   Promise.all([generateProblemDescription, generateCodeResponse])       *)
(*   -> createMochiCard -> console log.                                    *)
(* One TLA+ action is one run-to-completion turn of the Node event loop:   *)
(* the request handler, or the settlement of one outbound call together    *)
(* with every microtask continuation it triggers.                          *)
(*                                                                         *)
(* Strings are sequences of chunks (TLA+ strings), so that concatenation,  *)
(* trimming and JSON parsing are computed and not assumed.                 *)
(***************************************************************************)
EXTENDS Integers, Sequences, FiniteSets, TLC

\* ------------------------------------------------------------- bounds
\* Number of submissions in the full-domain specification Spec.
MaxReq == 1
\* Number of concurrent submissions in ConcSpec (representative outcomes).
MaxConc == 3

\* --------------------------------------------------------- JS values
JS(t, s, props) == [t |-> t, s |-> s, props |-> props]
Undefined == JS("undefined", <<>>, {})
Null == JS("null", <<>>, {})
Str(s) == JS("string", s, {})
Num(tok) == JS("number", <<tok>>, {})
Obj(props) == JS("object", <<>>, props)

\* JavaScript truthiness, as used by `!message`, `!content`, `if (mochiCard)`.
Truthy(v) ==
  CASE v.t = "undefined" -> FALSE
    [] v.t = "null" -> FALSE
    [] v.t = "string" -> v.s # <<>>
    [] v.t = "number" -> v.s # <<"0">>
    [] OTHER -> TRUE

\* String coercion of the `+` operator and of template literals.
ToStr(v) ==
  CASE v.t = "undefined" -> <<"undefined">>
    [] v.t = "null" -> <<"null">>
    [] v.t = "object" -> <<"[object Object]">>
    [] OTHER -> v.s

\* Property read `v.k`: throws on undefined/null, undefined when absent.
CanRead(v) == v.t \notin {"undefined", "null"}
Get(v, k) ==
  IF \E p \in v.props : p[1] = k
  THEN (CHOOSE p \in v.props : p[1] = k)[2]
  ELSE Undefined

\* String.prototype.trim on chunk sequences: whitespace chunks are " " and "\n".
WhiteSpace == {" ", "\n"}
RECURSIVE TrimStart(_)
TrimStart(s) ==
  IF s # <<>> /\ Head(s) \in WhiteSpace THEN TrimStart(Tail(s)) ELSE s
RECURSIVE TrimEnd(_)
TrimEnd(s) ==
  IF s # <<>> /\ s[Len(s)] \in WhiteSpace
  THEN TrimEnd(SubSeq(s, 1, Len(s) - 1)) ELSE s
Trim(s) == TrimEnd(TrimStart(s))

\* ------------------------------------------------------- JSON.parse
\* Tokens of a JSON text. String literals carry their quotes.
StringLits ==
  {"\"solutionExplanation\"", "\"code\"", "\"id\"", "\"E\"", "\"C\"", "\"c1\""}
NumberLits == {"0", "7"}
Unquote(tok) ==
  CASE tok = "\"solutionExplanation\"" -> "solutionExplanation"
    [] tok = "\"code\"" -> "code"
    [] tok = "\"id\"" -> "id"
    [] tok = "\"E\"" -> "E"
    [] tok = "\"C\"" -> "C"
    [] tok = "\"c1\"" -> "c1"
    [] OTHER -> tok

ParseFail == [ok |-> FALSE, val |-> Undefined]
ParseOk(v) == [ok |-> TRUE, val |-> v]

ParseScalar(tok) ==
  IF tok \in StringLits THEN ParseOk(Str(<<Unquote(tok)>>))
  ELSE IF tok = "null" THEN ParseOk(Null)
  ELSE IF tok \in NumberLits THEN ParseOk(Num(tok))
  ELSE ParseFail

\* members ::= key ":" scalar ("," members)? ; a later duplicate key wins.
RECURSIVE ParseMembers(_)
ParseMembers(toks) ==
  IF Len(toks) < 3 THEN ParseFail
  ELSE LET v == ParseScalar(toks[3]) IN
    IF toks[1] \notin StringLits \/ toks[2] # ":" \/ ~v.ok THEN ParseFail
    ELSE IF Len(toks) = 3
      THEN ParseOk(Obj({<<Unquote(toks[1]), v.val>>}))
    ELSE IF toks[4] # "," THEN ParseFail
    ELSE LET rest == ParseMembers(SubSeq(toks, 5, Len(toks))) IN
      IF ~rest.ok THEN ParseFail
      ELSE ParseOk(Obj(
             {p \in {<<Unquote(toks[1]), v.val>>} :
                 ~\E q \in rest.val.props : q[1] = p[1]}
             \cup rest.val.props))

JSONParse(toks) ==
  IF toks = <<>> THEN ParseFail
  ELSE IF Len(toks) = 1 THEN ParseScalar(toks[1])
  ELSE IF toks[1] = "{" /\ toks[Len(toks)] = "}"
    THEN IF Len(toks) = 2 THEN ParseOk(Obj({}))
         ELSE ParseMembers(SubSeq(toks, 2, Len(toks) - 1))
  ELSE ParseFail

\* ------------------------------------------------- promises, errors
Err(msg) == [isError |-> TRUE, message |-> msg]
NoErr == [isError |-> FALSE, message |-> <<>>]
NotStarted == [st |-> "none", val |-> Undefined, err |-> NoErr]
Pending == [st |-> "pending", val |-> Undefined, err |-> NoErr]
Fulfilled(v) == [st |-> "fulfilled", val |-> v, err |-> NoErr]
Rejected(e) == [st |-> "rejected", val |-> Undefined, err |-> e]

\* `error instanceof Error ? error.message : "Unknown error occurred"`
ErrorMessage(e) == IF e.isError THEN e.message ELSE <<"Unknown error occurred">>

\* ------------------------------------------------------ HTTP boundary
Response(status, json) == [status |-> status, json |-> json]
ValidationError == Response(400, <<"error", "Message is required">>)
Acknowledgment ==
  Response(200, <<"status", "submitted", "message", "Now processing">>)

\* The guard `!message || !description`.
Invalid(message, description) == ~Truthy(message) \/ ~Truthy(description)

\* ------------------------------------------------------ outbound calls
Call(api, content, schema, deck, auth) ==
  [api |-> api, content |-> content, schema |-> schema, deck |-> deck,
   auth |-> auth]

CodePrompt == <<"Please separate the solution/explanation and the code">>
ProblemPrompt == <<"The following text is a description of a problem">>

\* openai.chat.completions.create of generateCodeResponse (json_schema set).
CodeCall(message) ==
  Call("openai", CodePrompt \o ToStr(message), TRUE, "", <<>>)
\* openai.chat.completions.create of generateProblemDescription.
ProblemCall(description) ==
  Call("openai", ProblemPrompt \o ToStr(description), FALSE, "", <<>>)

DECK_ID == "QKtBzxLx"
CardHeader == <<"What is the key techinque to solve this problem?\n">>
\* The three backquotes of a Markdown fence (a TLA+ string cannot hold them).
Fence == "<3 backquotes>"

\* Mutant: the code is appended without its fenced block.
CardContent_unfenced(problemDescription, solutionExplanation, codeSnippet) ==
  CardHeader \o ToStr(problemDescription) \o <<"\n---\n">>
    \o ToStr(solutionExplanation) \o <<"\n">> \o ToStr(codeSnippet)

\* cardContent of createMochiCard.
CardContent(problemDescription, solutionExplanation, codeSnippet) ==
  CardHeader \o ToStr(problemDescription) \o <<"\n---\n">>
    \o ToStr(solutionExplanation) \o <<"\n">> \o <<Fence, "python\n">>
    \o ToStr(codeSnippet) \o <<"\n", Fence>>

\* The fetch of createMochiCard: Basic auth with the key as the user name.
MochiCall(key, problemDescription, solutionExplanation, codeSnippet) ==
  Call("mochi",
       CardContent(problemDescription, solutionExplanation, codeSnippet),
       FALSE, DECK_ID, <<"Basic ">> \o ToStr(key) \o <<":">>)

\* ------------------------------------------- results of the wrappers
\* What an upstream completion delivers: ok = FALSE is a rejected request,
\* otherwise content is response.choices[0]?.message?.content.
LLMOutcome(ok, content) == [ok |-> ok, content |-> content]
APIError == Err(<<"APIError">>)

\* generateCodeResponse after its await.
GenerateCodeResponse(o) ==
  IF ~o.ok THEN Rejected(APIError)
  ELSE IF ~Truthy(o.content) THEN Rejected(Err(<<"No content returned">>))
  ELSE LET p == JSONParse(o.content.s) IN
    IF p.ok THEN Fulfilled(p.val) ELSE Rejected(Err(<<"SyntaxError">>))

\* generateProblemDescription after its await.
GenerateProblemDescription(o) ==
  IF ~o.ok THEN Rejected(APIError) ELSE Fulfilled(o.content)

\* What the card sink delivers: net = FALSE is a failed fetch.
CardOutcome(net, status, text) == [net |-> net, status |-> status, text |-> text]
ResponseOk(status) == status \in 200..299

\* Mutant: response.ok is not checked before the body is parsed.
CreateMochiCard_ignoresStatus(o) ==
  IF ~o.net THEN Rejected(Err(<<"fetch failed">>))
  ELSE LET p == JSONParse(o.text) IN
    IF p.ok THEN Fulfilled(p.val) ELSE Rejected(Err(<<"SyntaxError">>))

\* createMochiCard after its fetch.
CreateMochiCard(o) ==
  IF ~o.net THEN Rejected(Err(<<"fetch failed">>))
  ELSE IF ~ResponseOk(o.status)
    THEN Rejected(Err(<<"Mochi API Error ", ToString(o.status), ": ">>
                      \o o.text))
  ELSE LET p == JSONParse(o.text) IN
    IF p.ok THEN Fulfilled(p.val) ELSE Rejected(Err(<<"SyntaxError">>))

\* ------------------------------------------------ background pipeline
LogEntry(level, text) == [level |-> level, text |-> text]
SuccessLog == LogEntry("log", <<"Processing completed successfully">>)
FailureLog(e) ==
  << LogEntry("error", <<"Error in background processing:">> \o e.message),
     LogEntry("error", <<"Error details:">> \o ErrorMessage(e)) >>

\* The state of one request's async IIFE: its position, the promises it
\* holds, and what it has written to the console and to the network.
\* `response` is the local of createMochiCard that holds the fetch result.
NoTask ==
  [pc |-> "none", pd |-> NotStarted, cr |-> NotStarted, mochi |-> NotStarted,
   response |-> CardOutcome(FALSE, 0, <<>>),
   net |-> <<>>, log |-> <<>>, invoked |-> <<>>]

\* The IIFE up to its first await: both wrappers run to their own await.
StartTask(message, description) ==
  [NoTask EXCEPT !.pc = "join", !.pd = Pending, !.cr = Pending,
                 !.net = <<ProblemCall(description), CodeCall(message)>>]

\* Mutant: the catch block issues the structured-extraction call again.
Catch_retries(t, e) ==
  [t EXCEPT !.pc = "done", !.log = @ \o FailureLog(e),
            !.net = Append(@, t.net[2])]

\* The catch block of the IIFE.
Catch(t, e) == [t EXCEPT !.pc = "done", !.log = @ \o FailureLog(e)]

\* createMochiCard without a credential: warns and returns null, and the
\* IIFE runs on to its success log.
SkipCard(t) ==
  [t EXCEPT
     !.mochi = Fulfilled(Null),
     !.log = @ \o << LogEntry("warn", <<"Skipping Mochi card creation: MOCHI_API_KEY is missing.">>),
                    SuccessLog >>,
     !.pc = "done"]

\* createMochiCard with a credential: composes the card and starts the fetch.
SendCard(t, key, problemDescription, solutionExplanation, codeSnippet) ==
  [t EXCEPT
     !.mochi = Pending,
     !.net = Append(@, MochiCall(key, problemDescription, solutionExplanation,
                                 codeSnippet)),
     !.pc = "card"]

\* Mutant: the credential check is missing.
CallCreateMochiCard_unguarded(t, key, problemDescription, solutionExplanation, codeSnippet) ==
  SendCard(t, key, problemDescription, solutionExplanation, codeSnippet)

\* The call of createMochiCard up to its first await.
CallCreateMochiCard(t, key, problemDescription, solutionExplanation, codeSnippet) ==
  IF ~Truthy(key) THEN SkipCard(t)
  ELSE SendCard(t, key, problemDescription, solutionExplanation, codeSnippet)

\* Building `result`, the log line and the call of createMochiCard.
ComposeAndCreate(t, key, problemDescription, sol) ==
  LET se == Get(sol, "solutionExplanation")
      code == Get(sol, "code")
  IN CallCreateMochiCard(
       [t EXCEPT
          !.log = Append(@, LogEntry("log", <<"Creating Mochi card...">>)),
          !.invoked = Append(@, <<problemDescription, se, code>>)],
       key, problemDescription, se, code)

NullRead == Err(<<"TypeError: Cannot read properties of null">>)

\* Mutant: an empty reformatted problem aborts the pipeline.
AfterJoin_requiresProblem(t, key, problemDescription, sol) ==
  IF ~Truthy(problemDescription) THEN Catch(t, Err(<<"No content returned">>))
  ELSE IF ~CanRead(sol) THEN Catch(t, NullRead)
  ELSE ComposeAndCreate(t, key, problemDescription, sol)

\* The IIFE from the resolution of Promise.all to its next await.
AfterJoin(t, key, problemDescription, sol) ==
  IF ~CanRead(sol) THEN Catch(t, NullRead)
  ELSE ComposeAndCreate(t, key, problemDescription, sol)

\* Mutant: the join waits for both but does not propagate a rejection of
\* the reformatting call.
JoinStep_ignoresRejection(t, key) ==
  IF t.pc # "join" THEN t
  ELSE IF t.cr.st = "rejected" THEN Catch(t, t.cr.err)
  ELSE IF t.pd.st \in {"fulfilled", "rejected"} /\ t.cr.st = "fulfilled"
    THEN AfterJoin(t, key, t.pd.val, t.cr.val)
  ELSE t

\* Mutant: the continuation runs as soon as the extraction call fulfils.
JoinStep_eager(t, key) ==
  IF t.pc # "join" THEN t
  ELSE IF t.pd.st = "rejected" THEN Catch(t, t.pd.err)
  ELSE IF t.cr.st = "rejected" THEN Catch(t, t.cr.err)
  ELSE IF t.cr.st = "fulfilled" THEN AfterJoin(t, key, t.pd.val, t.cr.val)
  ELSE t

\* The reaction of Promise.all to a settlement, and the continuation.
JoinStep(t, key) ==
  IF t.pc # "join" THEN t
  ELSE IF t.pd.st = "rejected" THEN Catch(t, t.pd.err)
  ELSE IF t.cr.st = "rejected" THEN Catch(t, t.cr.err)
  ELSE IF t.pd.st = "fulfilled" /\ t.cr.st = "fulfilled"
    THEN AfterJoin(t, key, t.pd.val, t.cr.val)
  ELSE t

\* Lines 257-261 after the await of createMochiCard.
AfterCard(t) ==
  IF t.mochi.st = "rejected" THEN Catch(t, t.mochi.err)
  ELSE [t EXCEPT
          !.pc = "done",
          !.log = @ \o (IF Truthy(t.mochi.val)
                        THEN << LogEntry("log", <<"Card created in Mochi: ">>
                                   \o ToStr(Get(t.mochi.val, "id"))) >>
                        ELSE <<>>)
                    \o <<SuccessLog>>]

\* -------------------------------------------------------------- state
VARIABLES MOCHI_API_KEY, body, res, task
vars == <<MOCHI_API_KEY, body, res, task>>

Reqs == DOMAIN task

\* Mutant: the handler starts the pipeline without having responded.
PostData_noAck(r, message, description) ==
  /\ body[r] = <<>>
  /\ body' = [body EXCEPT ![r] = <<[message |-> message, description |-> description]>>]
  /\ IF Invalid(message, description)
     THEN /\ res' = [res EXCEPT ![r] = Append(@, ValidationError)]
          /\ UNCHANGED task
     ELSE /\ UNCHANGED res
          /\ task' = [task EXCEPT ![r] = StartTask(message, description)]
  /\ UNCHANGED MOCHI_API_KEY

\* app.post("/api/data"): the whole synchronous handler.
PostData(r, message, description) ==
  /\ body[r] = <<>>
  /\ body' = [body EXCEPT ![r] = <<[message |-> message, description |-> description]>>]
  /\ IF Invalid(message, description)
     THEN /\ res' = [res EXCEPT ![r] = Append(@, ValidationError)]
          /\ UNCHANGED task
     ELSE /\ res' = [res EXCEPT ![r] = Append(@, Acknowledgment)]
          /\ task' = [task EXCEPT ![r] = StartTask(message, description)]
  /\ UNCHANGED MOCHI_API_KEY

\* handleSubmit of the form: posts only when both fields trim non-empty.
handleSubmit(r, text, problemDescription) ==
  /\ Trim(text) # <<>>
  /\ Trim(problemDescription) # <<>>
  /\ PostData(r, Str(text), Str(problemDescription))

\* The completion request of generateProblemDescription settles.
SettleProblemDescription(r, o) ==
  /\ task[r].pd.st = "pending"
  /\ task' = [task EXCEPT ![r] =
        JoinStep([@ EXCEPT !.pd = GenerateProblemDescription(o)], MOCHI_API_KEY)]
  /\ UNCHANGED <<MOCHI_API_KEY, body, res>>

\* The completion request of generateCodeResponse settles.
SettleCodeResponse(r, o) ==
  /\ task[r].cr.st = "pending"
  /\ task' = [task EXCEPT ![r] =
        JoinStep([@ EXCEPT !.cr = GenerateCodeResponse(o)], MOCHI_API_KEY)]
  /\ UNCHANGED <<MOCHI_API_KEY, body, res>>

\* The fetch of createMochiCard settles.
SettleMochiCard(r, o) ==
  /\ task[r].mochi.st = "pending"
  /\ task' = [task EXCEPT ![r] = AfterCard([@ EXCEPT !.response = o, !.mochi = CreateMochiCard(o)])]
  /\ UNCHANGED <<MOCHI_API_KEY, body, res>>

\* ------------------------------------------------------ input domains
Keys == {Undefined, Str(<<>>), Str(<<"K">>)}
Texts == {<<>>, <<" ">>, <<"x">>}
Fields == {Undefined, Null} \cup {Str(s) : s \in Texts}

ProblemOutcomes ==
  {LLMOutcome(FALSE, Undefined)}
  \cup {LLMOutcome(TRUE, c) : c \in {Undefined, Str(<<>>), Str(<<"P">>)}}

CodeTexts ==
  { <<"oops">>, <<"null">>, <<"{", "}">>,
    <<"{", "\"code\"", ":", "\"C\"", "}">>,
    <<"{", "\"solutionExplanation\"", ":", "\"E\"", "}">>,
    <<"{", "\"solutionExplanation\"", ":", "\"E\"", ",",
      "\"code\"", ":", "\"C\"", "}">> }
CodeOutcomes ==
  {LLMOutcome(FALSE, Undefined), LLMOutcome(TRUE, Undefined)}
  \cup {LLMOutcome(TRUE, Str(c)) : c \in CodeTexts}

CardOutcomes ==
  {CardOutcome(FALSE, 0, <<>>)}
  \cup {CardOutcome(TRUE, s, b) :
          s \in {200, 500},
          b \in { <<"{", "\"id\"", ":", "\"c1\"", "}">>, <<"null">>,
                  <<"Bad", " ", "Gateway">> }}

InitOver(R) ==
  /\ MOCHI_API_KEY \in Keys
  /\ body = [r \in R |-> <<>>]
  /\ res = [r \in R |-> <<>>]
  /\ task = [r \in R |-> NoTask]

Init == InitOver(1..MaxReq)

Next ==
  \/ \E r \in Reqs, m \in Fields, d \in Fields : PostData(r, m, d)
  \/ \E r \in Reqs, m \in Texts, d \in Texts : handleSubmit(r, m, d)
  \/ \E r \in Reqs, o \in ProblemOutcomes : SettleProblemDescription(r, o)
  \/ \E r \in Reqs, o \in CodeOutcomes : SettleCodeResponse(r, o)
  \/ \E r \in Reqs, o \in CardOutcomes : SettleMochiCard(r, o)

Spec == Init /\ [][Next]_vars

\* Several submissions in flight at once, over one representative of each
\* kind of input and upstream outcome.
ConcFields == {Str(<<>>), Str(<<"x">>)}
ConcProblemOutcomes ==
  { LLMOutcome(FALSE, Undefined), LLMOutcome(TRUE, Str(<<>>)),
    LLMOutcome(TRUE, Str(<<"P">>)) }
ConcCodeOutcomes ==
  { LLMOutcome(FALSE, Undefined),
    LLMOutcome(TRUE, Str(<<"{", "\"solutionExplanation\"", ":", "\"E\"", ",",
                           "\"code\"", ":", "\"C\"", "}">>)) }
ConcCardOutcomes ==
  { CardOutcome(TRUE, 200, <<"{", "\"id\"", ":", "\"c1\"", "}">>),
    CardOutcome(TRUE, 500, <<"Bad", " ", "Gateway">>) }

ConcInit == InitOver(1..MaxConc)

ConcNext ==
  \/ \E r \in Reqs, m \in ConcFields, d \in ConcFields : PostData(r, m, d)
  \/ \E r \in Reqs : handleSubmit(r, <<"x">>, <<"x">>)
  \/ \E r \in Reqs, o \in ConcProblemOutcomes : SettleProblemDescription(r, o)
  \/ \E r \in Reqs, o \in ConcCodeOutcomes : SettleCodeResponse(r, o)
  \/ \E r \in Reqs, o \in ConcCardOutcomes : SettleMochiCard(r, o)

ConcSpec == ConcInit /\ [][ConcNext]_vars

\* Every outbound call eventually settles.
Settles(r) ==
  /\ WF_vars(\E o \in ProblemOutcomes : SettleProblemDescription(r, o))
  /\ WF_vars(\E o \in CodeOutcomes : SettleCodeResponse(r, o))
  /\ WF_vars(\E o \in CardOutcomes : SettleMochiCard(r, o))

LiveSpec == Spec /\ \A r \in 1..MaxReq : Settles(r)

\* ============================================================ claims
Submitted(r) == body[r] # <<>>
Message(r) == body[r][1].message
Description(r) == body[r][1].description
\* Missing, empty or whitespace-only.
Blank(v) == v.t \in {"undefined", "null"} \/ (v.t = "string" /\ Trim(v.s) = <<>>)
Settled(p) == p.st \in {"fulfilled", "rejected"}
MochiCalls(r) == {i \in DOMAIN task[r].net : task[r].net[i].api = "mochi"}
OpenAICalls(r, schema) ==
  {i \in DOMAIN task[r].net :
     task[r].net[i].api = "openai" /\ task[r].net[i].schema = schema}
Logged(r, entry) == \E i \in DOMAIN task[r].log : task[r].log[i] = entry
SuccessLogged(r) == Logged(r, SuccessLog)
FailureLogged(r) == \E i \in DOMAIN task[r].log : task[r].log[i].level = "error"
LastLog(r) == task[r].log[Len(task[r].log)]

\* C1 (as claimed): a submission whose message or description is missing,
\* empty or whitespace-only gets the 400 validation error, starts no
\* background task and makes no outbound call.
C1_BlankRejected ==
  \A r \in Reqs :
    (Submitted(r) /\ (Blank(Message(r)) \/ Blank(Description(r))))
      => (res[r] = <<ValidationError>> /\ task[r] = NoTask)

\* C2: a valid submission is answered with the acknowledgment before either
\* LLM call has settled, and that response is never changed or added to,
\* whatever the background task later does.
C2_AckOnly ==
  /\ [](\A r \in Reqs :
          (task[r].pc # "none" \/ Settled(task[r].pd) \/ Settled(task[r].cr))
            => res[r] = <<Acknowledgment>>)
  /\ [][\A r \in Reqs : res[r] # <<>> => res'[r] = res[r]]_vars
C2_Witness ==
  \E r \in Reqs :
    /\ res[r] = <<Acknowledgment>>
    /\ task[r].pc = "done"
    /\ task[r].mochi.st = "rejected"
    /\ task[r].pd.st = "fulfilled"

\* C3: createMochiCard is invoked only when both LLM wrappers have
\* fulfilled; once either has rejected, no card call is ever made.
C3_AllOrNothing ==
  \A r \in Reqs :
    /\ (task[r].invoked # <<>> \/ MochiCalls(r) # {})
         => (task[r].pd.st = "fulfilled" /\ task[r].cr.st = "fulfilled")
    /\ (task[r].pd.st = "rejected" \/ task[r].cr.st = "rejected")
         => (task[r].invoked = <<>> /\ MochiCalls(r) = {}
             /\ task[r].mochi.st = "none")
C3_Witness ==
  \E r \in Reqs :
    /\ task[r].pd.st = "fulfilled"
    /\ task[r].cr.st = "rejected"
    /\ Truthy(MOCHI_API_KEY)
    /\ task[r].pc = "done"
    /\ MochiCalls(r) = {}

\* C4 (as claimed): generateCodeResponse fulfils only with an object that
\* has both string fields, so createMochiCard never receives an absent
\* explanation or code.
StructuredSolution(v) ==
  /\ v.t = "object"
  /\ Get(v, "solutionExplanation").t = "string"
  /\ Get(v, "code").t = "string"
C4_NoMissingField ==
  \A r \in Reqs :
    /\ task[r].cr.st = "fulfilled" => StructuredSolution(task[r].cr.val)
    /\ \A i \in DOMAIN task[r].invoked :
         /\ task[r].invoked[i][2] # Undefined
         /\ task[r].invoked[i][3] # Undefined

\* C5: the document sent to the card sink is the fixed template around the
\* three strings (header line, problem, rule, explanation, newline, fenced
\* python block with the code), with the fixed deck id; equal inputs give
\* equal documents.
C5_Template(p, e, c) ==
  <<"What is the key techinque to solve this problem?\n">> \o p
    \o <<"\n---\n">> \o e \o <<"\n", Fence, "python\n">> \o c
    \o <<"\n", Fence>>
AllStrings(a) == \A i \in 1..3 : a[i].t = "string"
C6_NoKey ==
  ~Truthy(MOCHI_API_KEY) =>
    \A r \in Reqs :
      /\ MochiCalls(r) = {}
      /\ task[r].invoked # <<>> =>
           /\ task[r].mochi = Fulfilled(Null)
           /\ task[r].pc = "done"
           /\ LastLog(r) = SuccessLog
           /\ ~FailureLogged(r)
C6_Witness ==
  \E r \in Reqs :
    /\ ~Truthy(MOCHI_API_KEY)
    /\ task[r].invoked # <<>>
    /\ task[r].invoked[1][2] = Undefined
    /\ SuccessLogged(r)

\* C7: every acknowledged submission makes exactly one call of each LLM
\* wrapper and at most one card call; a step of one submission leaves every
\* other submission's task untouched; whenever both wrappers fulfilled and
\* the credential is set the card call is made, whatever other submissions
\* did (no deduplication).
C7_Independent ==
  /\ [](\A r \in Reqs :
          /\ res[r] = <<Acknowledgment>> =>
               /\ Cardinality(OpenAICalls(r, FALSE)) = 1
               /\ Cardinality(OpenAICalls(r, TRUE)) = 1
               /\ Cardinality(MochiCalls(r)) <= 1
               /\ Len(task[r].net) = 2 + Cardinality(MochiCalls(r))
          /\ res[r] # <<Acknowledgment>> => task[r].net = <<>>
          /\ (Truthy(MOCHI_API_KEY) /\ task[r].pd.st = "fulfilled"
              /\ task[r].cr.st = "fulfilled" /\ CanRead(task[r].cr.val))
               => Cardinality(MochiCalls(r)) = 1)
  /\ [][\A r, q \in Reqs :
          (r # q /\ <<body[r], res[r], task[r]>>' # <<body[r], res[r], task[r]>>)
            => <<body[q], res[q], task[q]>>' = <<body[q], res[q], task[q]>>]_vars
C7_Witness ==
  \E r, q \in Reqs :
    /\ r # q
    /\ body[r] = body[q]
    /\ MochiCalls(r) # {} /\ MochiCalls(q) # {}
    /\ task[r].net = task[q].net
    /\ \E s \in Reqs : task[s].cr.st = "rejected"

\* C8 (as claimed): neither the createMochiCard call nor the failure log
\* happens while one of the two LLM calls is still pending.
C8_WaitsForBoth ==
  \A r \in Reqs :
    (task[r].invoked # <<>> \/ FailureLogged(r))
      => (Settled(task[r].pd) /\ Settled(task[r].cr))
\* C8 (amended): both LLM calls are started by the handler's own turn;
\* createMochiCard is never invoked while one of them is pending; the
\* failure log is written while one is pending only if the other rejected.
C8_FailFast ==
  \A r \in Reqs :
    /\ task[r].pc # "none" =>
         /\ task[r].pd.st # "none" /\ task[r].cr.st # "none"
         /\ Len(task[r].net) >= 2
         /\ task[r].net[1] = ProblemCall(Description(r))
         /\ task[r].net[2] = CodeCall(Message(r))
    /\ task[r].invoked # <<>>
         => (task[r].pd.st = "fulfilled" /\ task[r].cr.st = "fulfilled")
    /\ task[r].pc = "join"
         => (task[r].log = <<>> /\ task[r].pd.st # "rejected"
             /\ task[r].cr.st # "rejected")
    /\ (FailureLogged(r) /\ task[r].pd.st = "pending")
         => (task[r].cr.st = "rejected"
             /\ LastLog(r).text = <<"Error details:">> \o task[r].cr.err.message)
    /\ (FailureLogged(r) /\ task[r].cr.st = "pending")
         => (task[r].pd.st = "rejected"
             /\ LastLog(r).text = <<"Error details:">> \o task[r].pd.err.message)
C8_Witness ==
  \E r \in Reqs :
    /\ FailureLogged(r)
    /\ task[r].pd.st = "pending"
    /\ task[r].cr.st = "rejected"
    /\ task[r].pc = "done"

\* C9: under the assumption that every outbound call settles, a started
\* task reaches "done" with exactly one of the success log and the failure
\* log, and then writes and calls nothing more; a non-2xx card-sink response
\* ends in the failure log carrying the status code and the body.
C9_Outcome(r) ==
  /\ ~(SuccessLogged(r) /\ FailureLogged(r))
  /\ task[r].pc = "done" <=> (SuccessLogged(r) \/ FailureLogged(r))
  /\ (task[r].mochi.st # "pending" /\ task[r].response.net
      /\ ~ResponseOk(task[r].response.status))
       => /\ FailureLogged(r)
          /\ LastLog(r).text =
               <<"Error details:", "Mochi API Error ",
                 ToString(task[r].response.status), ": ">>
               \o task[r].response.text
C9_Terminal ==
  /\ [](\A r \in Reqs : C9_Outcome(r))
  /\ \A r \in 1..MaxReq : (task[r].pc # "none") ~> (task[r].pc = "done")
  /\ [][\A r \in Reqs :
          task[r].pc = "done" =>
            /\ task'[r].pc = "done"
            /\ task'[r].log = task[r].log
            /\ task'[r].net = task[r].net
            /\ task'[r].invoked = task[r].invoked]_vars
C9_Witness ==
  \E r \in Reqs :
    /\ task[r].pc = "done"
    /\ task[r].response.net
    /\ task[r].response.status = 500
    /\ FailureLogged(r)
    /\ ~SuccessLogged(r)

\* C10: when generateProblemDescription fulfils without content and
\* generateCodeResponse fulfils with a readable value, the pipeline does not
\* abort at the join and invokes createMochiCard with that empty problem
\* text, sending the same card call as for any other problem text.
C10_EmptyProblemTolerated ==
  \A r \in Reqs :
    (task[r].pd.st = "fulfilled" /\ ~Truthy(task[r].pd.val)
     /\ task[r].cr.st = "fulfilled" /\ CanRead(task[r].cr.val))
      => /\ task[r].pc \in {"card", "done"}
         /\ task[r].invoked =
              << <<task[r].pd.val, Get(task[r].cr.val, "solutionExplanation"),
                   Get(task[r].cr.val, "code")>> >>
         /\ Truthy(MOCHI_API_KEY) =>
              /\ Cardinality(MochiCalls(r)) = 1
              /\ task[r].net[3].content =
                   <<"What is the key techinque to solve this problem?\n">>
                   \o ToStr(task[r].pd.val) \o <<"\n---\n">>
                   \o ToStr(task[r].invoked[1][2]) \o <<"\n", Fence, "python\n">>
                   \o ToStr(task[r].invoked[1][3]) \o <<"\n", Fence>>
         /\ task[r].mochi.st # "rejected" => ~FailureLogged(r)
C10_Witness ==
  \E r \in Reqs :
    /\ task[r].pd = Fulfilled(Undefined)
    /\ task[r].cr.st = "fulfilled"
    /\ MochiCalls(r) # {}
    /\ SuccessLogged(r)

====
